---- MODULE Spec2Model ----
(***************************************************************************)
(* Bit-banged I2C master (experimental/devices/bitbang/i2c.go).            *)
(*                                                                         *)
(* The model follows the code pin operation by pin operation: every call   *)
(* of In, Out, Read and sleepHalfCycle is one step of the procedure that   *)
(* makes it.  The two lines are wired-AND: a line reads low when the       *)
(* master drives it low or the slave pulls it low.  The slave is the       *)
(* environment: it chooses whether to acknowledge, how long to stretch     *)
(* the clock and which byte to present on a read.                          *)
(***************************************************************************)
EXTENDS Integers, Sequences, FiniteSets, TLC

\* ---------------------------------------------------------------- bounds
MaxW == 2          \* longest write buffer
MaxR == 2          \* longest read buffer
MaxStretch == 2    \* most polls the slave holds the clock low
MaxFaults == 1     \* most pin operations that fail (FaultSpec only)

\* ------------------------------------------------------------- constants
SkipAddr == 65535
AddrLimit == 255
Microsecond == 1000
Second == 1000000000

Procs == {1, 2}
Addrs == {11, 127, 128, 255, 256, SkipAddr}
WData == <<13, 165, 60, 195>>
SlaveBytes == {57, 198}
Freqs == {100000, 400000}
Modes == {"In", "OutLow", "OutHigh"}

VARIABLES
  constructed,  \* New has returned the bus object
  halfCycle,    \* I2C.halfCycle, ns
  mu,           \* I2C.mu is held
  speed,        \* the frequency last passed to New or SetSpeed, Hz
  sclMode,      \* how the master's clock pin is configured
  sdaMode,      \* how the master's data pin is configured
  slaveSda,     \* the slave pulls the data line low
  stretch,      \* polls for which the slave still holds the clock low
  slaveByte,    \* the byte the slave presents on the current read
  held,         \* polls the slave chose to hold the clock low in this ack phase
  pc,           \* per caller: next top-level statement
  call,         \* per caller: procedure being executed (start, stop, ...)
  step,         \* per caller: position inside that procedure
  x,            \* per caller: bit counter of writeByte / readByte
  b,            \* per caller: byte being written / assembled
  ack,          \* per caller: result of the last writeByte
  addrArg,      \* per caller: the address as the caller passed it
  addr,         \* per caller: addr argument (uint16, modified in place)
  w,            \* per caller: write buffer
  r,            \* per caller: read buffer
  wi,           \* per caller: index of the range loop over w
  ri,           \* per caller: index of the range loop over r
  err,          \* per caller: value returned ("none" while running)
  busLog,       \* bus phases completed since the lock was last taken
  lastWait,     \* the most recent wait: speed in force and duration slept
  faults,       \* pin operations that failed so far
  faulted,      \* per caller: a pin operation failed during this call
  wave          \* what the procedure in progress did to the lines, in order

busVars == <<constructed, halfCycle, mu, speed>>
pinVars == <<sclMode, sdaMode>>
slaveVars == <<slaveSda, stretch, slaveByte, held>>
procVars == <<call, step, x, b, ack>>
argVars == <<addrArg, addr, w, r, wi, ri, err>>
histVars == <<busLog, lastWait, faults, faulted, wave>>
vars == <<constructed, halfCycle, mu, speed, sclMode, sdaMode, slaveSda, stretch,
          slaveByte, pc, call, step, x, b, ack, addrArg, addr, w, r, wi, ri,
          err,
          busLog, lastWait, faults, faulted, held, wave>>

\* --------------------------------------------------------------- helpers
RECURSIVE Pow2(_)
Pow2(k) == IF k = 0 THEN 1 ELSE 2 * Pow2(k - 1)

Bit(v, k) == (v \div Pow2(k)) % 2

Or1(v) == IF v % 2 = 0 THEN v + 1 ELSE v

Shl1(v) == (v * 2) % 65536

ToByte(v) == v % 256

WBufs == {SubSeq(WData, 1, k) : k \in 0..MaxW}
RBufs == {[i \in 1..k |-> 0] : k \in 0..MaxR}

Ev(e, v, a) == [ev |-> e, byte |-> v, ack |-> a]

Period(f) == Second \div f

\* level of a line: the master's pin configuration and the slave's pull
Level(mode, slaveLow) ==
  IF mode = "OutLow" THEN "Low"
  ELSE IF mode = "OutHigh" THEN "High"
  ELSE IF slaveLow THEN "Low" ELSE "High"

SclLevel == Level(sclMode, stretch > 0)
SdaLevel == Level(sdaMode, slaveSda)

\* gpio.PinIO operations; a failed operation leaves the pin as it was
PinIn(mode, ok) == IF ok THEN "In" ELSE mode
PinOut(mode, lvl, ok) == IF ~ok THEN mode ELSE IF lvl THEN "OutHigh" ELSE "OutLow"

writeSdaOpenDrain(mode, v, ok) == IF v THEN PinIn(mode, ok) ELSE PinOut(mode, FALSE, ok)
writeSclOpenDrain(mode, v, ok) == IF v THEN PinIn(mode, ok) ELSE PinOut(mode, FALSE, ok)

\* the duration one half-cycle wait sleeps for, given the configured value
sleepHalfCycle(hc) == Microsecond

Op(k, v) == [k |-> k, v |-> v]
IsPinOp(o) == o.k \in {"sda_od", "scl_od", "sda_out", "scl_out", "sda_in"}

\* one entry of the waveform: what was done, and the levels of the data and
\* clock lines once it was done
Wv(k, d, c) == [op |-> k, sda |-> d, scl |-> c]

WaveKind(o) ==
  CASE o.k \in {"sda_od", "sda_out", "sda_in"} -> "sda"
    [] o.k \in {"scl_od", "scl_out"} -> "scl"
    [] o.k = "sleep" -> "wait"
    [] o.k = "scl_read" -> "poll"
    [] o.k = "sda_read" -> "sample"

\* the waveform prev extended by operation o: a read is recorded with the
\* levels it saw, anything else with the levels it left; the waveform is
\* kept only while every pin operation has succeeded
Traced(prev, o) ==
  IF faults' # 0 THEN <<>>
  ELSE IF o.k \in {"scl_read", "sda_read"}
  THEN Append(prev, Wv(WaveKind(o), SdaLevel, SclLevel))
  ELSE Append(prev, Wv(WaveKind(o), SdaLevel', SclLevel'))

\* one pin operation or wait of a procedure, with the pin's result ok
DoOp(p, o, ok) ==
  /\ IsPinOp(o) \/ ok
  /\ ok \/ faults < MaxFaults
  /\ sclMode' = CASE o.k = "scl_od" -> writeSclOpenDrain(sclMode, o.v, ok)
                  [] o.k = "scl_out" -> PinOut(sclMode, o.v, ok)
                  [] OTHER -> sclMode
  /\ sdaMode' = CASE o.k = "sda_od" -> writeSdaOpenDrain(sdaMode, o.v, ok)
                  [] o.k = "sda_out" -> PinOut(sdaMode, o.v, ok)
                  [] o.k = "sda_in" -> PinIn(sdaMode, ok)
                  [] OTHER -> sdaMode
  /\ lastWait' = IF o.k = "sleep"
                 THEN [f |-> speed, d |-> sleepHalfCycle(halfCycle)]
                 ELSE lastWait
  /\ faults' = IF ok THEN faults ELSE faults + 1
  /\ faulted' = IF ok THEN faulted ELSE [faulted EXCEPT ![p] = TRUE]

InCS(p) == pc[p] \notin {"idle", "tx_lock", "rrs_lock", "ss_lock"}

\* ------------------------------------------------------------------ Init
Init ==
  /\ constructed = FALSE
  /\ halfCycle = 0
  /\ mu = FALSE
  /\ sclMode \in Modes
  /\ sdaMode \in Modes
  /\ slaveSda = FALSE
  /\ stretch = 0
  /\ slaveByte = 0
  /\ held = 0
  /\ pc = [p \in Procs |-> "idle"]
  /\ call = [p \in Procs |-> "none"]
  /\ step = [p \in Procs |-> 0]
  /\ x = [p \in Procs |-> 0]
  /\ b = [p \in Procs |-> 0]
  /\ ack = [p \in Procs |-> FALSE]
  /\ addrArg = [p \in Procs |-> 0]
  /\ addr = [p \in Procs |-> 0]
  /\ w = [p \in Procs |-> <<>>]
  /\ r = [p \in Procs |-> <<>>]
  /\ wi = [p \in Procs |-> 1]
  /\ ri = [p \in Procs |-> 1]
  /\ err = [p \in Procs |-> "none"]
  /\ busLog = <<>>
  /\ lastWait = [f |-> 0, d |-> 0]
  /\ speed = 0
  /\ faults = 0
  /\ faulted = [p \in Procs |-> FALSE]
  /\ wave = <<>>

\* New: both pins to input with pull-up, then output high; any failing pin
\* operation returns the error and no bus object.
New(f, ok1, ok2, ok3, ok4) ==
  /\ ~constructed
  /\ (ok1 /\ ok2 /\ ok3 /\ ok4) \/ faults < MaxFaults
  /\ sclMode' = IF ~ok1 THEN sclMode ELSE PinOut(PinIn(sclMode, ok1), TRUE, ok2)
  /\ sdaMode' = IF ~(ok1 /\ ok2) THEN sdaMode
                ELSE IF ~ok3 THEN sdaMode ELSE PinOut(PinIn(sdaMode, ok3), TRUE, ok4)
  /\ IF ok1 /\ ok2 /\ ok3 /\ ok4
     THEN /\ constructed' = TRUE
          /\ halfCycle' = Period(f) \div 2
          /\ speed' = f
          /\ faults' = faults
     ELSE /\ UNCHANGED <<constructed, halfCycle, speed>>
          /\ faults' = faults + 1
  /\ UNCHANGED <<mu, pc, busLog, lastWait, faulted, wave>>
  /\ UNCHANGED <<slaveVars, procVars, argVars>>

\* ------------------------------------------------- bus state machine
\* start() that lowers the clock before the data line
startOps_ClockFirst(s) ==
  CASE s = 0 -> Op("sda_od", TRUE)
    [] s = 1 -> Op("scl_od", TRUE)
    [] s = 2 -> Op("scl_od", FALSE)
    [] s = 3 -> Op("sleep", TRUE)
    [] s = 4 -> Op("sda_od", FALSE)

\* the pin operations and waits of start(), in order
startOps(s) ==
  CASE s = 0 -> Op("sda_od", TRUE)
    [] s = 1 -> Op("scl_od", TRUE)
    [] s = 2 -> Op("sda_od", FALSE)
    [] s = 3 -> Op("sleep", TRUE)
    [] s = 4 -> Op("scl_od", FALSE)

\* stop() that drives the data line low in its last pin operation
stopOps_DataLeftLow(s) ==
  CASE s = 0 -> Op("scl_out", FALSE)
    [] s = 1 -> Op("sleep", TRUE)
    [] s = 2 -> Op("scl_out", TRUE)
    [] s = 3 -> Op("sleep", TRUE)
    [] s = 4 -> Op("sda_out", FALSE)
    [] s = 5 -> Op("sleep", TRUE)

\* the pin operations and waits of stop(), in order
stopOps(s) ==
  CASE s = 0 -> Op("scl_out", FALSE)
    [] s = 1 -> Op("sleep", TRUE)
    [] s = 2 -> Op("scl_out", TRUE)
    [] s = 3 -> Op("sleep", TRUE)
    [] s = 4 -> Op("sda_out", TRUE)
    [] s = 5 -> Op("sleep", TRUE)

\* writeByte that sends the least significant bit first
writeByteOps_LsbFirst(s, v, k) ==
  CASE s = 0 -> Op("sleep", TRUE)
    [] s = 1 -> Op("sda_od", Bit(v, k) # 0)
    [] s = 2 -> Op("sleep", TRUE)
    [] s = 3 -> Op("scl_od", TRUE)
    [] s = 4 -> Op("sleep", TRUE)
    [] s = 5 -> Op("scl_od", FALSE)
    [] s = 6 -> Op("sleep", TRUE)
    [] s = 7 -> Op("scl_od", TRUE)
    [] s = 8 -> Op("sda_od", TRUE)
    [] s = 9 -> Op("scl_read", TRUE)
    [] s = 10 -> Op("sleep", TRUE)
    [] s = 11 -> Op("sda_read", TRUE)
    [] s = 12 -> Op("sleep", TRUE)
    [] s = 13 -> Op("scl_od", FALSE)
    [] s = 14 -> Op("sleep", TRUE)

\* writeByte that holds the data line low in the acknowledge period
writeByteOps_DataHeldLow(s, v, k) ==
  CASE s = 0 -> Op("sleep", TRUE)
    [] s = 1 -> Op("sda_od", Bit(v, 7 - k) # 0)
    [] s = 2 -> Op("sleep", TRUE)
    [] s = 3 -> Op("scl_od", TRUE)
    [] s = 4 -> Op("sleep", TRUE)
    [] s = 5 -> Op("scl_od", FALSE)
    [] s = 6 -> Op("sleep", TRUE)
    [] s = 7 -> Op("scl_od", TRUE)
    [] s = 8 -> Op("sda_od", FALSE)
    [] s = 9 -> Op("scl_read", TRUE)
    [] s = 10 -> Op("sleep", TRUE)
    [] s = 11 -> Op("sda_read", TRUE)
    [] s = 12 -> Op("sleep", TRUE)
    [] s = 13 -> Op("scl_od", FALSE)
    [] s = 14 -> Op("sleep", TRUE)

\* writeByte that leaves the clock released when it returns
writeByteOps_ClockLeftHigh(s, v, k) ==
  CASE s = 0 -> Op("sleep", TRUE)
    [] s = 1 -> Op("sda_od", Bit(v, 7 - k) # 0)
    [] s = 2 -> Op("sleep", TRUE)
    [] s = 3 -> Op("scl_od", TRUE)
    [] s = 4 -> Op("sleep", TRUE)
    [] s = 5 -> Op("scl_od", FALSE)
    [] s = 6 -> Op("sleep", TRUE)
    [] s = 7 -> Op("scl_od", TRUE)
    [] s = 8 -> Op("sda_od", TRUE)
    [] s = 9 -> Op("scl_read", TRUE)
    [] s = 10 -> Op("sleep", TRUE)
    [] s = 11 -> Op("sda_read", TRUE)
    [] s = 12 -> Op("sleep", TRUE)
    [] s = 13 -> Op("scl_od", TRUE)
    [] s = 14 -> Op("sleep", TRUE)

\* the pin operations, reads and waits of writeByte(v), bit counter k
writeByteOps(s, v, k) ==
  CASE s = 0 -> Op("sleep", TRUE)
    [] s = 1 -> Op("sda_od", Bit(v, 7 - k) # 0)
    [] s = 2 -> Op("sleep", TRUE)
    [] s = 3 -> Op("scl_od", TRUE)
    [] s = 4 -> Op("sleep", TRUE)
    [] s = 5 -> Op("scl_od", FALSE)
    [] s = 6 -> Op("sleep", TRUE)
    [] s = 7 -> Op("scl_od", TRUE)
    [] s = 8 -> Op("sda_od", TRUE)
    [] s = 9 -> Op("scl_read", TRUE)
    [] s = 10 -> Op("sleep", TRUE)
    [] s = 11 -> Op("sda_read", TRUE)
    [] s = 12 -> Op("sleep", TRUE)
    [] s = 13 -> Op("scl_od", FALSE)
    [] s = 14 -> Op("sleep", TRUE)

\* readByte that leaves the data line released in the ninth clock period
readByteOps_NoAck(s) ==
  CASE s = 0 -> Op("sda_in", TRUE)
    [] s = 1 -> Op("sleep", TRUE)
    [] s = 2 -> Op("scl_od", TRUE)
    [] s = 3 -> Op("sleep", TRUE)
    [] s = 4 -> Op("sda_read", TRUE)
    [] s = 5 -> Op("scl_od", FALSE)
    [] s = 6 -> Op("sleep", TRUE)
    [] s = 7 -> Op("sda_od", TRUE)
    [] s = 8 -> Op("scl_od", TRUE)
    [] s = 9 -> Op("sleep", TRUE)

\* the pin operations, reads and waits of readByte()
readByteOps(s) ==
  CASE s = 0 -> Op("sda_in", TRUE)
    [] s = 1 -> Op("sleep", TRUE)
    [] s = 2 -> Op("scl_od", TRUE)
    [] s = 3 -> Op("sleep", TRUE)
    [] s = 4 -> Op("sda_read", TRUE)
    [] s = 5 -> Op("scl_od", FALSE)
    [] s = 6 -> Op("sleep", TRUE)
    [] s = 7 -> Op("sda_od", FALSE)
    [] s = 8 -> Op("scl_od", TRUE)
    [] s = 9 -> Op("sleep", TRUE)

\* start(): one step of the procedure
Start(p, ok) ==
  /\ call[p] = "start"
  /\ DoOp(p, startOps(step[p]), ok)
  /\ IF step[p] < 4
     THEN /\ step' = [step EXCEPT ![p] = @ + 1]
          /\ UNCHANGED <<call, busLog>>
     ELSE /\ step' = [step EXCEPT ![p] = 0]
          /\ call' = [call EXCEPT ![p] = "none"]
          /\ busLog' = Append(busLog, Ev("start", 0, FALSE))
  /\ UNCHANGED <<busVars, slaveVars, pc, x, b, ack, argVars>>
  /\ wave' = Traced(IF step[p] = 0 THEN <<>> ELSE wave, startOps(step[p]))

\* stop(): one step of the procedure
Stop(p, ok) ==
  /\ call[p] = "stop"
  /\ DoOp(p, stopOps(step[p]), ok)
  /\ IF step[p] < 5
     THEN /\ step' = [step EXCEPT ![p] = @ + 1]
          /\ UNCHANGED <<call, busLog>>
     ELSE /\ step' = [step EXCEPT ![p] = 0]
          /\ call' = [call EXCEPT ![p] = "none"]
          /\ busLog' = Append(busLog, Ev("stop", 0, FALSE))
  /\ UNCHANGED <<busVars, slaveVars, pc, x, b, ack, argVars>>
  /\ wave' = Traced(wave, stopOps(step[p]))

\* a poll of the clock line that never waits for the slave
StretchPoll_NoWait(level) == 11

\* the clock-stretch loop: where writeByte goes after reading the clock line
StretchPoll(level) == IF level = "Low" THEN 10 ELSE 11

\* writeByte(b): one step of the procedure
WriteByte(p, ok) ==
  /\ call[p] = "writeByte"
  /\ DoOp(p, writeByteOps(step[p], b[p], x[p]), ok)
  /\ step' = [step EXCEPT ![p] =
       CASE step[p] = 5 -> IF x[p] + 1 < 8 THEN 1 ELSE 6
         [] step[p] = 9 -> StretchPoll(SclLevel)
         [] step[p] = 10 -> 9
         [] step[p] = 14 -> 0
         [] OTHER -> step[p] + 1]
  /\ x' = [x EXCEPT ![p] =
       CASE step[p] = 0 -> 0
         [] step[p] = 5 -> x[p] + 1
         [] step[p] = 14 -> 0
         [] OTHER -> x[p]]
  \* the slave may hold the clock low for some polls after the master
  \* releases it
  /\ stretch' \in (CASE step[p] = 7 -> 0..MaxStretch
                     [] step[p] = 9 -> {IF stretch > 0 THEN stretch - 1 ELSE 0}
                     [] OTHER -> {stretch})
  /\ ack' = IF step[p] = 11 THEN [ack EXCEPT ![p] = (SdaLevel = "Low")] ELSE ack
  /\ call' = IF step[p] = 14 THEN [call EXCEPT ![p] = "none"] ELSE call
  /\ busLog' = IF step[p] = 14
               THEN Append(busLog, Ev("w", b[p], ack[p]))
               ELSE busLog
  \* the slave answers in the ninth clock period and lets go afterwards
  /\ slaveSda' \in (CASE step[p] = 8 -> BOOLEAN
                      [] step[p] = 13 -> {FALSE}
                      [] OTHER -> {slaveSda})
  /\ held' = CASE step[p] = 7 -> stretch'
               [] step[p] = 14 -> 0
               [] OTHER -> held
  /\ UNCHANGED <<busVars, slaveByte, pc, b, argVars>>
  /\ wave' = Traced(IF step[p] = 0 THEN <<>> ELSE wave,
                    writeByteOps(step[p], b[p], x[p]))

\* readByte(): one step of the procedure
ReadByte(p, ok, SB) ==
  /\ call[p] = "readByte"
  /\ DoOp(p, readByteOps(step[p]), ok)
  /\ step' = [step EXCEPT ![p] =
       CASE step[p] = 5 -> IF x[p] + 1 < 8 THEN 1 ELSE 6
         [] step[p] = 9 -> 0
         [] OTHER -> step[p] + 1]
  /\ x' = [x EXCEPT ![p] =
       CASE step[p] = 0 -> 0
         [] step[p] = 5 -> x[p] + 1
         [] step[p] = 9 -> 0
         [] OTHER -> x[p]]
  /\ b' = [b EXCEPT ![p] =
       CASE step[p] = 0 -> 0
         [] step[p] = 4 -> IF SdaLevel = "High" THEN @ + Pow2(7 - x[p]) ELSE @
         [] OTHER -> @]
  \* the slave picks the byte it sends and presents it bit by bit, changing
  \* the data line after each falling clock edge and releasing it after
  \* the eighth
  /\ slaveByte' \in (IF step[p] = 0 THEN SB ELSE {slaveByte})
  /\ slaveSda' = CASE step[p] = 0 -> (Bit(slaveByte', 7) = 0)
                   [] step[p] = 5 -> (x[p] + 1 < 8 /\ Bit(slaveByte, 7 - (x[p] + 1)) = 0)
                   [] OTHER -> slaveSda
  /\ call' = IF step[p] = 9 THEN [call EXCEPT ![p] = "none"] ELSE call
  /\ busLog' = IF step[p] = 9
               THEN Append(busLog, Ev("r", b[p], FALSE))
               ELSE busLog
  /\ UNCHANGED <<busVars, stretch, held, pc, ack, argVars>>
  /\ wave' = Traced(IF step[p] = 0 THEN <<>> ELSE wave, readByteOps(step[p]))

\* ------------------------------------------------------ transaction API
\* a lock that never blocks
Lock_NoBlock == mu' = TRUE

\* sync.Mutex.Lock: blocks while the lock is held
Lock == mu = FALSE /\ mu' = TRUE

\* an address phase that is never skipped
HasAddr_Always(a) == TRUE

\* addr != SkipAddr: the call has an address phase
HasAddr(a) == a # SkipAddr

\* the 10-bit address test of Tx and ReadRepeatedStart
AddrInvalid(a) == a > AddrLimit

\* Tx: addr <<= 1, then the low bit
TxAddrValue(a, rbuf) == IF Len(rbuf) = 0 THEN Or1(Shl1(a)) ELSE Shl1(a)

\* ReadRepeatedStart: addr <<= 1 before the write phase
RrsAddr1Value(a) == Shl1(a)

\* the second address byte without the read bit
RrsAddr2Value_NoReadBit(a) == a

\* ReadRepeatedStart: addr |= 1 after the repeated start
RrsAddr2Value(a) == Or1(a)

\* the acknowledgement is not looked at
AckErr_Ignored(a) == "none"

\* a byte that was not acknowledged ends the call with the NACK error
AckErr(a) == IF a THEN "none" ELSE "nack"

\* a return of Tx that skips the stop condition
TxReturn_NoStop == "tx_unlock"

\* where a return statement of Tx goes: the deferred stop runs first
TxReturn == "tx_defer_stop"

\* where a return statement of ReadRepeatedStart goes
RrsReturn == "rrs_defer_stop"

Invoke(p, proc, next) ==
  /\ call' = [call EXCEPT ![p] = proc]
  /\ step' = [step EXCEPT ![p] = 0]
  /\ pc' = [pc EXCEPT ![p] = next]

Goto(p, next) ==
  /\ pc' = [pc EXCEPT ![p] = next]
  /\ UNCHANGED <<call, step>>

At(p, label) == pc[p] = label /\ call[p] = "none"

\* a return that keeps the lock
Unlock_KeepsLock(p) ==
  /\ mu' = mu
  /\ pc' = [pc EXCEPT ![p] = "idle"]
  /\ x' = [x EXCEPT ![p] = 0]
  /\ b' = [b EXCEPT ![p] = 0]
  /\ ack' = [ack EXCEPT ![p] = FALSE]
  /\ addrArg' = [addrArg EXCEPT ![p] = 0]
  /\ addr' = [addr EXCEPT ![p] = 0]
  /\ w' = [w EXCEPT ![p] = <<>>]
  /\ r' = [r EXCEPT ![p] = <<>>]
  /\ wi' = [wi EXCEPT ![p] = 1]
  /\ ri' = [ri EXCEPT ![p] = 1]
  /\ err' = [err EXCEPT ![p] = "none"]
  /\ faulted' = [faulted EXCEPT ![p] = FALSE]
  /\ busLog' = <<>>
  /\ wave' = <<>>
  /\ UNCHANGED <<constructed, halfCycle, speed, pinVars, slaveVars, call, step,
                 lastWait, faults>>

\* the caller's locals disappear when the call returns
Unlock(p) ==
  /\ mu' = FALSE
  /\ pc' = [pc EXCEPT ![p] = "idle"]
  /\ x' = [x EXCEPT ![p] = 0]
  /\ b' = [b EXCEPT ![p] = 0]
  /\ ack' = [ack EXCEPT ![p] = FALSE]
  /\ addrArg' = [addrArg EXCEPT ![p] = 0]
  /\ addr' = [addr EXCEPT ![p] = 0]
  /\ w' = [w EXCEPT ![p] = <<>>]
  /\ r' = [r EXCEPT ![p] = <<>>]
  /\ wi' = [wi EXCEPT ![p] = 1]
  /\ ri' = [ri EXCEPT ![p] = 1]
  /\ err' = [err EXCEPT ![p] = "none"]
  /\ faulted' = [faulted EXCEPT ![p] = FALSE]
  /\ busLog' = <<>>
  /\ wave' = <<>>
  /\ UNCHANGED <<constructed, halfCycle, speed, pinVars, slaveVars, call, step,
                 lastWait, faults>>

\* a caller enters Tx and reaches i.mu.Lock()
TxCall(p) ==
  /\ constructed
  /\ pc[p] = "idle"
  /\ pc' = [pc EXCEPT ![p] = "tx_lock"]
  /\ UNCHANGED <<busVars, pinVars, slaveVars, procVars, argVars, histVars>>

\* Tx takes the lock; its arguments are addr, w and r
TxLock(p, a, wbuf, rbuf) ==
  /\ pc[p] = "tx_lock"
  /\ Lock
  /\ addrArg' = [addrArg EXCEPT ![p] = a]
  /\ addr' = [addr EXCEPT ![p] = a]
  /\ w' = [w EXCEPT ![p] = wbuf]
  /\ r' = [r EXCEPT ![p] = rbuf]
  /\ pc' = [pc EXCEPT ![p] = "tx_start"]
  /\ UNCHANGED <<constructed, halfCycle, speed, pinVars, slaveVars, procVars,
                 wi, ri, err, histVars>>

TxStart(p) ==
  /\ At(p, "tx_start")
  /\ Invoke(p, "start", "tx_addr")
  /\ UNCHANGED <<busVars, pinVars, slaveVars, x, b, ack, argVars, histVars>>

TxAddr(p) ==
  /\ At(p, "tx_addr")
  /\ IF HasAddr(addr[p])
     THEN IF AddrInvalid(addr[p])
          THEN /\ err' = [err EXCEPT ![p] = "addr"]
               /\ Goto(p, TxReturn)
               /\ UNCHANGED <<addr, b>>
          ELSE /\ addr' = [addr EXCEPT ![p] = TxAddrValue(addr[p], r[p])]
               /\ b' = [b EXCEPT ![p] = ToByte(addr'[p])]
               /\ Invoke(p, "writeByte", "tx_addr_ack")
               /\ UNCHANGED err
     ELSE /\ Goto(p, "tx_w")
          /\ UNCHANGED <<addr, b, err>>
  /\ UNCHANGED <<busVars, pinVars, slaveVars, x, ack, addrArg, w, r, wi, ri, histVars>>

TxAddrAck(p) ==
  /\ At(p, "tx_addr_ack")
  /\ err' = [err EXCEPT ![p] = AckErr(ack[p])]
  /\ Goto(p, IF err'[p] = "none" THEN "tx_w" ELSE TxReturn)
  /\ UNCHANGED <<busVars, pinVars, slaveVars, x, b, ack, addrArg, addr, w, r,
                 wi, ri, histVars>>

TxWrite(p) ==
  /\ At(p, "tx_w")
  /\ IF wi[p] <= Len(w[p])
     THEN /\ b' = [b EXCEPT ![p] = w[p][wi[p]]]
          /\ Invoke(p, "writeByte", "tx_w_ack")
     ELSE /\ Goto(p, "tx_r")
          /\ UNCHANGED b
  /\ UNCHANGED <<busVars, pinVars, slaveVars, x, ack, argVars, histVars>>

TxWriteAck(p) ==
  /\ At(p, "tx_w_ack")
  /\ err' = [err EXCEPT ![p] = AckErr(ack[p])]
  /\ IF err'[p] = "none"
     THEN /\ wi' = [wi EXCEPT ![p] = @ + 1]
          /\ Goto(p, "tx_w")
     ELSE /\ Goto(p, TxReturn)
          /\ UNCHANGED wi
  /\ UNCHANGED <<busVars, pinVars, slaveVars, x, b, ack, addrArg, addr, w, r,
                 ri, histVars>>

TxRead(p) ==
  /\ At(p, "tx_r")
  /\ IF ri[p] <= Len(r[p])
     THEN /\ Invoke(p, "readByte", "tx_r_store")
          /\ UNCHANGED err
     ELSE /\ err' = [err EXCEPT ![p] = "nil"]
          /\ Goto(p, TxReturn)
  /\ UNCHANGED <<busVars, pinVars, slaveVars, x, b, ack, addrArg, addr, w, r,
                 wi, ri, histVars>>

TxReadStore(p) ==
  /\ At(p, "tx_r_store")
  /\ r' = [r EXCEPT ![p][ri[p]] = b[p]]
  /\ ri' = [ri EXCEPT ![p] = @ + 1]
  /\ Goto(p, "tx_r")
  /\ UNCHANGED <<busVars, pinVars, slaveVars, x, b, ack, addrArg, addr, w, wi,
                 err, histVars>>

TxDeferStop(p) ==
  /\ At(p, "tx_defer_stop")
  /\ Invoke(p, "stop", "tx_unlock")
  /\ UNCHANGED <<busVars, pinVars, slaveVars, x, b, ack, argVars, histVars>>

TxUnlock(p) ==
  /\ At(p, "tx_unlock")
  /\ Unlock(p)

\* a caller enters ReadRepeatedStart and reaches i.mu.Lock()
RrsCall(p) ==
  /\ constructed
  /\ pc[p] = "idle"
  /\ pc' = [pc EXCEPT ![p] = "rrs_lock"]
  /\ UNCHANGED <<busVars, pinVars, slaveVars, procVars, argVars, histVars>>

\* ReadRepeatedStart takes the lock; its arguments are addr, w and r
RrsLock(p, a, wbuf, rbuf) ==
  /\ pc[p] = "rrs_lock"
  /\ Lock
  /\ addrArg' = [addrArg EXCEPT ![p] = a]
  /\ addr' = [addr EXCEPT ![p] = a]
  /\ w' = [w EXCEPT ![p] = wbuf]
  /\ r' = [r EXCEPT ![p] = rbuf]
  /\ pc' = [pc EXCEPT ![p] = "rrs_wake_start"]
  /\ UNCHANGED <<constructed, halfCycle, speed, pinVars, slaveVars, procVars,
                 wi, ri, err, histVars>>

RrsWakeStart(p) ==
  /\ At(p, "rrs_wake_start")
  /\ Invoke(p, "start", "rrs_wake_sleep1")
  /\ UNCHANGED <<busVars, pinVars, slaveVars, x, b, ack, argVars, histVars>>

RrsWakeSleep1(p) ==
  /\ At(p, "rrs_wake_sleep1")
  /\ DoOp(p, Op("sleep", TRUE), TRUE)
  /\ busLog' = Append(busLog, Ev("wait", 0, FALSE))
  /\ Goto(p, "rrs_wake_stop")
  /\ UNCHANGED <<busVars, slaveVars, x, b, ack, argVars>>
  /\ wave' = Traced(wave, Op("sleep", TRUE))

RrsWakeStop(p) ==
  /\ At(p, "rrs_wake_stop")
  /\ Invoke(p, "stop", "rrs_wake_sleep2")
  /\ UNCHANGED <<busVars, pinVars, slaveVars, x, b, ack, argVars, histVars>>

RrsWakeSleep2(p) ==
  /\ At(p, "rrs_wake_sleep2")
  /\ DoOp(p, Op("sleep", TRUE), TRUE)
  /\ busLog' = Append(busLog, Ev("wait", 0, FALSE))
  /\ Goto(p, "rrs_start")
  /\ UNCHANGED <<busVars, slaveVars, x, b, ack, argVars>>
  /\ wave' = Traced(wave, Op("sleep", TRUE))

RrsStart(p) ==
  /\ At(p, "rrs_start")
  /\ Invoke(p, "start", "rrs_addr1")
  /\ UNCHANGED <<busVars, pinVars, slaveVars, x, b, ack, argVars, histVars>>

RrsAddr1(p) ==
  /\ At(p, "rrs_addr1")
  /\ IF HasAddr(addr[p])
     THEN IF AddrInvalid(addr[p])
          THEN /\ err' = [err EXCEPT ![p] = "addr"]
               /\ Goto(p, RrsReturn)
               /\ UNCHANGED <<addr, b>>
          ELSE /\ addr' = [addr EXCEPT ![p] = RrsAddr1Value(addr[p])]
               /\ b' = [b EXCEPT ![p] = ToByte(addr'[p])]
               /\ Invoke(p, "writeByte", "rrs_addr1_ack")
               /\ UNCHANGED err
     ELSE /\ Goto(p, "rrs_w")
          /\ UNCHANGED <<addr, b, err>>
  /\ UNCHANGED <<busVars, pinVars, slaveVars, x, ack, addrArg, w, r, wi, ri, histVars>>

RrsAddr1Ack(p) ==
  /\ At(p, "rrs_addr1_ack")
  /\ err' = [err EXCEPT ![p] = AckErr(ack[p])]
  /\ Goto(p, IF err'[p] = "none" THEN "rrs_w" ELSE RrsReturn)
  /\ UNCHANGED <<busVars, pinVars, slaveVars, x, b, ack, addrArg, addr, w, r,
                 wi, ri, histVars>>

RrsWrite(p) ==
  /\ At(p, "rrs_w")
  /\ IF wi[p] <= Len(w[p])
     THEN /\ b' = [b EXCEPT ![p] = w[p][wi[p]]]
          /\ Invoke(p, "writeByte", "rrs_w_ack")
     ELSE /\ Goto(p, "rrs_restart")
          /\ UNCHANGED b
  /\ UNCHANGED <<busVars, pinVars, slaveVars, x, ack, argVars, histVars>>

RrsWriteAck(p) ==
  /\ At(p, "rrs_w_ack")
  /\ err' = [err EXCEPT ![p] = AckErr(ack[p])]
  /\ IF err'[p] = "none"
     THEN /\ wi' = [wi EXCEPT ![p] = @ + 1]
          /\ Goto(p, "rrs_w")
     ELSE /\ Goto(p, RrsReturn)
          /\ UNCHANGED wi
  /\ UNCHANGED <<busVars, pinVars, slaveVars, x, b, ack, addrArg, addr, w, r,
                 ri, histVars>>

\* the extra start before the read phase
RrsRestart(p) ==
  /\ At(p, "rrs_restart")
  /\ Invoke(p, "start", "rrs_addr2")
  /\ UNCHANGED <<busVars, pinVars, slaveVars, x, b, ack, argVars, histVars>>

RrsAddr2(p) ==
  /\ At(p, "rrs_addr2")
  /\ IF HasAddr(addr[p])
     THEN IF AddrInvalid(addr[p])
          THEN /\ err' = [err EXCEPT ![p] = "addr"]
               /\ Goto(p, RrsReturn)
               /\ UNCHANGED <<addr, b>>
          ELSE /\ addr' = [addr EXCEPT ![p] = RrsAddr2Value(addr[p])]
               /\ b' = [b EXCEPT ![p] = ToByte(addr'[p])]
               /\ Invoke(p, "writeByte", "rrs_addr2_ack")
               /\ UNCHANGED err
     ELSE /\ Goto(p, "rrs_r")
          /\ UNCHANGED <<addr, b, err>>
  /\ UNCHANGED <<busVars, pinVars, slaveVars, x, ack, addrArg, w, r, wi, ri, histVars>>

RrsAddr2Ack(p) ==
  /\ At(p, "rrs_addr2_ack")
  /\ err' = [err EXCEPT ![p] = AckErr(ack[p])]
  /\ Goto(p, IF err'[p] = "none" THEN "rrs_r" ELSE RrsReturn)
  /\ UNCHANGED <<busVars, pinVars, slaveVars, x, b, ack, addrArg, addr, w, r,
                 wi, ri, histVars>>

RrsRead(p) ==
  /\ At(p, "rrs_r")
  /\ IF ri[p] <= Len(r[p])
     THEN /\ Invoke(p, "readByte", "rrs_r_store")
          /\ UNCHANGED err
     ELSE /\ err' = [err EXCEPT ![p] = "nil"]
          /\ Goto(p, RrsReturn)
  /\ UNCHANGED <<busVars, pinVars, slaveVars, x, b, ack, addrArg, addr, w, r,
                 wi, ri, histVars>>

RrsReadStore(p) ==
  /\ At(p, "rrs_r_store")
  /\ r' = [r EXCEPT ![p][ri[p]] = b[p]]
  /\ ri' = [ri EXCEPT ![p] = @ + 1]
  /\ Goto(p, "rrs_r")
  /\ UNCHANGED <<busVars, pinVars, slaveVars, x, b, ack, addrArg, addr, w, wi,
                 err, histVars>>

RrsDeferStop(p) ==
  /\ At(p, "rrs_defer_stop")
  /\ Invoke(p, "stop", "rrs_unlock")
  /\ UNCHANGED <<busVars, pinVars, slaveVars, x, b, ack, argVars, histVars>>

RrsUnlock(p) ==
  /\ At(p, "rrs_unlock")
  /\ Unlock(p)

\* a caller enters SetSpeed and reaches i.mu.Lock()
SetSpeedCall(p) ==
  /\ constructed
  /\ pc[p] = "idle"
  /\ pc' = [pc EXCEPT ![p] = "ss_lock"]
  /\ UNCHANGED <<busVars, pinVars, slaveVars, procVars, argVars, histVars>>

SetSpeedLock(p) ==
  /\ pc[p] = "ss_lock"
  /\ Lock
  /\ pc' = [pc EXCEPT ![p] = "ss_set"]
  /\ UNCHANGED <<constructed, halfCycle, speed, pinVars, slaveVars, procVars,
                 argVars, histVars>>

\* i.halfCycle = f.Period() / 2
SetSpeedSet(p, f) ==
  /\ At(p, "ss_set")
  /\ halfCycle' = Period(f) \div 2
  /\ speed' = f
  /\ pc' = [pc EXCEPT ![p] = "ss_unlock"]
  /\ UNCHANGED <<constructed, mu, pinVars, slaveVars, procVars, argVars,
                 histVars>>

SetSpeedUnlock(p) ==
  /\ At(p, "ss_unlock")
  /\ Unlock(p)

\* ------------------------------------------------------- specifications
\* one step of caller p: its calls take their arguments from A, W and R,
\* and its pin operations their results from OK
Step(p, A, W, R, OK, SB) ==
  \/ TxCall(p)
  \/ \E a \in A, wbuf \in W, rbuf \in R : TxLock(p, a, wbuf, rbuf)
  \/ TxStart(p)
  \/ TxAddr(p)
  \/ TxAddrAck(p)
  \/ TxWrite(p)
  \/ TxWriteAck(p)
  \/ TxRead(p)
  \/ TxReadStore(p)
  \/ TxDeferStop(p)
  \/ TxUnlock(p)
  \/ RrsCall(p)
  \/ \E a \in A, wbuf \in W, rbuf \in R : RrsLock(p, a, wbuf, rbuf)
  \/ RrsWakeStart(p)
  \/ RrsWakeSleep1(p)
  \/ RrsWakeStop(p)
  \/ RrsWakeSleep2(p)
  \/ RrsStart(p)
  \/ RrsAddr1(p)
  \/ RrsAddr1Ack(p)
  \/ RrsWrite(p)
  \/ RrsWriteAck(p)
  \/ RrsRestart(p)
  \/ RrsAddr2(p)
  \/ RrsAddr2Ack(p)
  \/ RrsRead(p)
  \/ RrsReadStore(p)
  \/ RrsDeferStop(p)
  \/ RrsUnlock(p)
  \/ SetSpeedCall(p)
  \/ SetSpeedLock(p)
  \/ \E f \in Freqs : SetSpeedSet(p, f)
  \/ SetSpeedUnlock(p)
  \/ \E ok \in OK : Start(p, ok)
  \/ \E ok \in OK : Stop(p, ok)
  \/ \E ok \in OK : WriteByte(p, ok)
  \/ \E ok \in OK : ReadByte(p, ok, SB)

\* one caller making call after call, every argument combination, every
\* pin operation succeeds
Callers == {1}

Next ==
  \/ \E f \in Freqs : New(f, TRUE, TRUE, TRUE, TRUE)
  \/ \E p \in Callers : Step(p, Addrs, WBufs, RBufs, {TRUE}, SlaveBytes)

Spec == Init /\ [][Next]_vars

\* several concurrent callers, short buffers, every pin operation succeeds
ConcAddrs == {11, 256, SkipAddr}
ConcWBufs == {<<>>, <<13>>}
ConcRBufs == {<<>>, <<0>>}

NextConc ==
  \/ \E f \in Freqs : New(f, TRUE, TRUE, TRUE, TRUE)
  \/ \E p \in Procs : Step(p, ConcAddrs, ConcWBufs, ConcRBufs, {TRUE}, SlaveBytes)

ConcSpec == Init /\ [][NextConc]_vars

\* one caller reading one byte, the slave presenting any of the 256
\* sequences of eight data-line levels
AllBytes == 0..255
ByteAddrs == {11}
ByteWBufs == {<<13>>}
ByteRBufs == {<<0>>}

NextByte ==
  \/ \E f \in Freqs : New(f, TRUE, TRUE, TRUE, TRUE)
  \/ \E p \in Callers : Step(p, ByteAddrs, ByteWBufs, ByteRBufs, {TRUE}, AllBytes)

ByteSpec == Init /\ [][NextByte]_vars

\* the concurrent callers under the scheduling the Go runtime provides: a
\* goroutine inside a call keeps running, and a goroutine blocked in
\* mu.Lock() is not passed over for ever (sync.Mutex hands the lock to a
\* waiter that has waited long enough)
LiveAddrs == {11}
LiveWBufs == {<<13>>}
LiveRBufs == {<<0>>}

Run(p) ==
  InCS(p) /\ Step(p, LiveAddrs, LiveWBufs, LiveRBufs, {TRUE}, SlaveBytes)

Acquire(p) ==
  /\ pc[p] \in {"tx_lock", "rrs_lock", "ss_lock"}
  /\ Step(p, LiveAddrs, LiveWBufs, LiveRBufs, {TRUE}, SlaveBytes)

NextLive ==
  \/ \E f \in Freqs : New(f, TRUE, TRUE, TRUE, TRUE)
  \/ \E p \in Procs : Step(p, LiveAddrs, LiveWBufs, LiveRBufs, {TRUE}, SlaveBytes)

LiveSpec ==
  /\ Init /\ [][NextLive]_vars
  /\ \A p \in Procs : WF_vars(Run(p)) /\ SF_vars(Acquire(p))

\* one caller, short buffers, pin operations may fail
FaultAddrs == {11, 128, 256, SkipAddr}
FaultWBufs == {<<>>, <<13>>}
FaultRBufs == {<<>>, <<0>>}
Results == BOOLEAN

NextFault ==
  \/ \E f \in Freqs, ok1, ok2, ok3, ok4 \in Results : New(f, ok1, ok2, ok3, ok4)
  \/ \E p \in Callers : Step(p, FaultAddrs, FaultWBufs, FaultRBufs, Results, SlaveBytes)

FaultSpec == Init /\ [][NextFault]_vars

\* ------------------------------------------------------------ properties
\* the call has run its deferred stop and is about to unlock and return
\* err[p] to its caller
Returned(p) == pc[p] \in {"tx_unlock", "rrs_unlock"} /\ call[p] = "none"

IsTx(p) == pc[p] \in {"tx_start", "tx_addr", "tx_addr_ack", "tx_w", "tx_w_ack",
                      "tx_r", "tx_r_store", "tx_defer_stop", "tx_unlock"}

LogIdx == 1..Len(busLog)
Count(e) == Cardinality({i \in LogIdx : busLog[i].ev = e})
IsByte(i) == busLog[i].ev \in {"w", "r"}
LastIs(e) == Len(busLog) > 0 /\ busLog[Len(busLog)].ev = e
LinesHigh == SclLevel = "High" /\ SdaLevel = "High"

\* C1: whenever no transaction is in progress (after New, and when a Tx or
\* ReadRepeatedStart call returns with success, the address error or a
\* NACK) the clock line and the data line are both high.
C1_IdleLinesHigh ==
  constructed =>
    /\ (\A p \in Procs : ~InCS(p)) => LinesHigh
    /\ \A p \in Procs : Returned(p) => LinesHigh

\* a Tx whose second write-buffer byte was not acknowledged has returned
C1_Witness ==
  \E p \in Procs :
    /\ pc[p] = "tx_unlock" /\ call[p] = "none"
    /\ err[p] = "nack" /\ wi[p] = 2 /\ addrArg[p] = 11
    /\ LinesHigh

\* C2 as stated: when a call returns, every start condition it issued has a
\* stop condition of its own (as many stops as starts) and a stop was the
\* last bus action.
C2_OneStopPerStart ==
  \A p \in Procs :
    Returned(p) => (Count("start") = Count("stop") /\ LastIs("stop"))

\* start conditions issued while the bus was already active: a start with
\* an earlier start and no stop between the two
RepeatedStarts ==
  {i \in LogIdx :
     /\ busLog[i].ev = "start"
     /\ \E h \in LogIdx :
          /\ h < i /\ busLog[h].ev = "start"
          /\ \A k \in LogIdx : (h < k /\ k < i) => busLog[k].ev # "stop"}

\* C2 amended: when a call returns, a stop condition was its last bus
\* action, every start is followed by a stop, every stop closes a start
\* issued since the previous stop, and there are as many stops as starts
\* that are not repeated starts.  Tx issues no repeated start and
\* ReadRepeatedStart at most one, which shares the final stop with the
\* start before it.
C2_StartsClosedByStop ==
  \A p \in Procs :
    Returned(p) =>
      /\ LastIs("stop")
      /\ \A i \in LogIdx : busLog[i].ev = "start" =>
           \E j \in LogIdx : j > i /\ busLog[j].ev = "stop"
      /\ \A j \in LogIdx : busLog[j].ev = "stop" =>
           \E i \in LogIdx :
             /\ i < j /\ busLog[i].ev = "start"
             /\ \A k \in LogIdx : (i < k /\ k < j) => busLog[k].ev # "stop"
      /\ Count("start") = Count("stop") + Cardinality(RepeatedStarts)
      /\ Cardinality(RepeatedStarts) <= (IF IsTx(p) THEN 0 ELSE 1)

\* a ReadRepeatedStart that reached its repeated start has returned
C2_Witness ==
  \E p \in Procs :
    /\ pc[p] = "rrs_unlock" /\ call[p] = "none"
    /\ Count("start") = 3 /\ Count("stop") = 2
    /\ err[p] = "nil"

\* C3: an address that is not SkipAddr and is above 0x7F makes Tx and
\* ReadRepeatedStart return the address error; an address in 0..0x7F never
\* does.
C3_AddrAbove7BitsRejected ==
  \A p \in Procs :
    Returned(p) =>
      /\ (addrArg[p] # SkipAddr /\ addrArg[p] > 127) => err[p] = "addr"
      /\ addrArg[p] <= 127 => err[p] # "addr"

\* C4: a call that returns the address error has transferred no byte.
C4_AddrErrorNoBytes ==
  \A p \in Procs :
    (Returned(p) /\ err[p] = "addr") => \A i \in LogIdx : ~IsByte(i)

\* C5: once a written byte is not acknowledged nothing but the stop
\* condition follows it on the bus (no later write, no read, no second
\* attempt), and the call returns the NACK error after that stop; the NACK
\* error is returned for no other reason.
C5_NackAborts ==
  /\ \A i \in LogIdx :
       (busLog[i].ev = "w" /\ ~busLog[i].ack) =>
         \A j \in LogIdx : j > i => (j = i + 1 /\ busLog[j].ev = "stop")
  /\ \A p \in Procs :
       Returned(p) =>
         /\ (\E i \in LogIdx : busLog[i].ev = "w" /\ ~busLog[i].ack) =>
              (err[p] = "nack" /\ LastIs("stop") /\ Count("r") = 0)
         /\ err[p] = "nack" =>
              \E i \in LogIdx : busLog[i].ev = "w" /\ ~busLog[i].ack

\* the first write-buffer byte of two was not acknowledged, with a byte
\* still to write and bytes to read
C5_Witness ==
  \E p \in Procs :
    /\ Returned(p) /\ err[p] = "nack"
    /\ Len(w[p]) = 2 /\ wi[p] = 1 /\ Len(r[p]) = 2
    /\ addrArg[p] = 11
    /\ Count("w") = 2 /\ Count("r") = 0 /\ LastIs("stop")

\* C6: a call during which a pin operation failed returns the pin error.
C6_PinErrorReturned ==
  \A p \in Procs : (Returned(p) /\ faulted[p]) => err[p] = "pin"

\* C7: at most one caller is between Lock and Unlock, the lock is held
\* exactly then, the lock is released only after the stop condition of the
\* transaction completed, and the half-cycle value changes only in a step
\* of the one caller inside SetSpeed.
C7_Exclusive ==
  /\ [](/\ Cardinality({p \in Procs : InCS(p)}) <= 1
        /\ mu <=> (\E p \in Procs : InCS(p)))
  /\ [][/\ (mu /\ ~mu' /\ busLog # <<>>) => LastIs("stop")
        /\ halfCycle' # halfCycle =>
             (constructed => \A p \in Procs : InCS(p) => pc[p] = "ss_set")]_vars

\* one caller is in the middle of a byte while another waits for the lock
C7_Witness ==
  \E p, q \in Procs :
    /\ p # q
    /\ call[p] = "writeByte" /\ step[p] = 9
    /\ pc[q] \in {"tx_lock", "rrs_lock", "ss_lock"}

\* C8: the address byte Tx writes for a valid address a is 2a+1 when the
\* write buffer is empty and 2a when it is not.
C8_ReadBitIffNothingToWrite ==
  \A p \in Procs :
    (pc[p] = "tx_addr_ack" /\ addrArg[p] <= 127) =>
      b[p] = 2 * addrArg[p] + (IF Len(w[p]) = 0 THEN 1 ELSE 0)

\* the bus phases of a successful ReadRepeatedStart(a, wbuf, rbuf)
RrsPhases(a, wbuf, rbuf) ==
  <<Ev("start", 0, FALSE), Ev("wait", 0, FALSE), Ev("stop", 0, FALSE),
    Ev("wait", 0, FALSE), Ev("start", 0, FALSE), Ev("w", 2 * a, TRUE)>>
  \o [i \in 1..Len(wbuf) |-> Ev("w", wbuf[i], TRUE)]
  \o <<Ev("start", 0, FALSE), Ev("w", 2 * a + 1, TRUE)>>
  \o [i \in 1..Len(rbuf) |-> Ev("r", rbuf[i], FALSE)]
  \o <<Ev("stop", 0, FALSE)>>

\* C9: a successful ReadRepeatedStart with a valid address a has performed
\* exactly: wake pulse (start, wait, stop, wait), start, address byte 2a,
\* the write buffer in order, a second start, address byte 2a+1, one read
\* per byte of the read buffer stored in order, stop.
C9_RrsPhaseOrder ==
  \A p \in Procs :
    (pc[p] = "rrs_unlock" /\ call[p] = "none" /\ err[p] = "nil"
       /\ addrArg[p] <= 127) =>
      busLog = RrsPhases(addrArg[p], w[p], r[p])

\* a successful register read with two bytes written and two bytes read
C9_Witness ==
  \E p \in Procs :
    /\ pc[p] = "rrs_unlock" /\ call[p] = "none" /\ err[p] = "nil"
    /\ addrArg[p] = 11 /\ Len(w[p]) = 2 /\ Len(r[p]) = 2
    /\ r[p][1] # r[p][2]
    /\ Len(busLog) = 13

\* C10: a wait made under a lower frequency than the wait before it lasts
\* strictly longer.
C10_LowerSpeedLongerWait ==
  [][(lastWait.f # 0 /\ lastWait'.f < lastWait.f) =>
       lastWait'.d > lastWait.d]_vars

IsW(e) == e.ev = "w"
WritesOf(log) == SelectSeq(log, IsW)

\* C11: when the address argument is SkipAddr (0xFFFF), Tx and
\* ReadRepeatedStart never return the address-range error and write no
\* address byte: every byte written is a byte of the write buffer, in order.
\* In Tx the first byte clocked after the start is the first write-buffer byte
\* (or the first read when the write buffer is empty); a successful
\* ReadRepeatedStart has the wake pulse, a start, the write buffer, the
\* repeated start, the reads and the stop, with no address phase.
C11_SkipAddrOmitsAddress ==
  \A p \in Procs :
    (InCS(p) /\ addrArg[p] = SkipAddr) =>
      /\ err[p] # "addr"
      /\ pc[p] \notin {"tx_addr_ack", "rrs_addr1_ack", "rrs_addr2_ack"}
      /\ LET ws == WritesOf(busLog) IN
           /\ Len(ws) <= Len(w[p])
           /\ \A i \in 1..Len(ws) : ws[i].byte = w[p][i]
      /\ (IsTx(p) /\ Len(busLog) >= 2) =>
           /\ busLog[1].ev = "start"
           /\ busLog[2].ev = (IF Len(w[p]) > 0 THEN "w"
                              ELSE IF Len(r[p]) > 0 THEN "r" ELSE "stop")
      /\ (Returned(p) /\ ~IsTx(p) /\ err[p] = "nil") =>
           /\ Len(busLog) = 5 + Len(w[p]) + 1 + Len(r[p]) + 1
           /\ busLog[6 + Len(w[p])].ev = "start"
           /\ \A i \in 1..Len(w[p]) : busLog[5 + i] = Ev("w", w[p][i], TRUE)
           /\ \A i \in 1..Len(r[p]) : busLog[6 + Len(w[p]) + i].ev = "r"

\* a ReadRepeatedStart with SkipAddr that wrote two bytes and read two has
\* returned with success
C11_Witness ==
  \E p \in Procs :
    /\ Returned(p) /\ ~IsTx(p) /\ err[p] = "nil"
    /\ addrArg[p] = SkipAddr /\ Len(w[p]) = 2 /\ Len(r[p]) = 2

\* C12: across construction and every sequence of Tx, ReadRepeatedStart and
\* SetSpeed calls, neither line is ever switched to output mode driving
\* high: a pin is made high only by configuring it as an input with pull-up,
\* and an output only ever drives low.
C12_NeverDrivenHigh ==
  [][/\ sclMode' = "OutHigh" => sclMode = "OutHigh"
     /\ sdaMode' = "OutHigh" => sdaMode = "OutHigh"]_vars

\* a start condition directly followed by a stop condition has completed
StartThenStop(p) ==
  /\ Returned(p)
  /\ Len(busLog) >= 2
  /\ busLog[Len(busLog) - 1].ev = "start"
  /\ busLog[Len(busLog)].ev = "stop"

\* the waveform entries that are pin operations, as (data, clock) levels
IsPinEntry(e) == e.op \in {"sda", "scl"}
PinLevels(wv) ==
  LET pins == SelectSeq(wv, IsPinEntry)
  IN  [i \in 1..Len(pins) |-> <<pins[i].sda, pins[i].scl>>]
OpsOf(wv) == [i \in 1..Len(wv) |-> wv[i].op]

\* C13 as stated: start() immediately followed by stop() performs, in this
\* exact order: both lines high, half-cycle wait, data low while the clock
\* is high, half-cycle wait, clock low; then clock low, wait, clock high,
\* wait, data high while the clock is high, wait.
C13_StartStopTwoWaits ==
  \A p \in Procs :
    StartThenStop(p) =>
      OpsOf(wave) = <<"sda", "scl", "wait", "sda", "wait", "scl",
                      "scl", "wait", "scl", "wait", "sda", "wait">>

\* C13 amended: start() immediately followed by stop() performs, in this
\* exact order: data high, clock high, data low while the clock is high
\* (no wait before it), half-cycle wait, clock low; then clock low, wait,
\* clock high, wait, data high while the clock is high, wait. The (data,
\* clock) levels after the seven pin operations are (high,high),
\* (high,high), (low,high), (low,low), (low,low), (low,high), (high,high)
\* when the clock is high as start() begins; in a repeated start the clock
\* is still low when the data line is released, and the first pair is
\* (high,low).
C13_StartStopWaveform ==
  \A p \in Procs :
    StartThenStop(p) =>
      /\ Len(wave) = 11
      /\ wave[1].op = "sda" /\ wave[1].sda = "High"
      /\ Tail(wave) = <<Wv("scl", "High", "High"),
                        Wv("sda", "Low", "High"), Wv("wait", "Low", "High"),
                        Wv("scl", "Low", "Low"),
                        Wv("scl", "Low", "Low"), Wv("wait", "Low", "Low"),
                        Wv("scl", "Low", "High"), Wv("wait", "Low", "High"),
                        Wv("sda", "High", "High"), Wv("wait", "High", "High")>>
      /\ wave[1].scl = "High" =>
         PinLevels(wave) = << <<"High", "High">>, <<"High", "High">>,
                              <<"Low", "High">>, <<"Low", "Low">>,
                              <<"Low", "Low">>, <<"Low", "High">>,
                              <<"High", "High">> >>

\* a Tx with nothing to send (SkipAddr, empty buffers) has returned: its
\* start was directly followed by its stop
C13_Witness ==
  \E p \in Procs :
    /\ StartThenStop(p) /\ IsTx(p) /\ err[p] = "nil"
    /\ Len(busLog) = 2 /\ Len(wave) = 11 /\ wave[1].scl = "High"

BitLevel(v, k) == IF Bit(v, 7 - k) # 0 THEN "High" ELSE "Low"

\* the waveform of the eight bit periods of a byte v, entry i of 40: for
\* each bit, most significant first, the data line is set while the clock
\* is low, then one clock pulse during which the data line keeps its level
BitPeriod(lvl) ==
  <<Wv("sda", lvl, "Low"), Wv("wait", lvl, "Low"), Wv("scl", lvl, "High"),
    Wv("wait", lvl, "High"), Wv("scl", lvl, "Low")>>

BitsWave(v, i) == BitPeriod(BitLevel(v, (i - 1) \div 5))[((i - 1) % 5) + 1]

InWriteByte(p) == call[p] = "writeByte" /\ step[p] >= 1

\* C14: for every byte b, writeByte, entered with the clock low, puts the
\* eight bits of b on the data line most significant bit first, one clock
\* pulse per bit, and changes the data line only while the clock is low: at
\* the k-th rising clock edge the data line is at bit 7-k of b and stays
\* there until the clock has been lowered again.
C14_BitsMsbFirst ==
  \A p \in Procs :
    InWriteByte(p) =>
      /\ wave[1].op = "wait" /\ wave[1].scl = "Low"
      /\ \A i \in 1..40 :
           i + 1 <= Len(wave) => wave[i + 1] = BitsWave(b[p], i)
      /\ step[p] >= 6 => Len(wave) >= 41

\* the eight bits of 0xA5 (both levels, changing from bit to bit) are out
C14_Witness ==
  \E p \in Procs :
    /\ call[p] = "writeByte" /\ step[p] = 6 /\ b[p] = 165 /\ Len(wave) = 41

\* C15: writeByte returns acknowledged = true exactly when the data line
\* reads low at the sample taken in the ninth clock period, after the master
\* has released the data line and the clock reads high: true when the slave
\* pulls the data line low, false when the line stays high.
C15_AckIffDataLow ==
  \A p \in Procs :
    (call[p] = "writeByte" /\ step[p] = 12) =>
      /\ wave[Len(wave)].op = "sample"
      /\ wave[Len(wave)].scl = "High"
      /\ sdaMode = "In"
      /\ ack[p] = (wave[Len(wave)].sda = "Low")
      /\ ack[p] = slaveSda
      /\ Len(SelectSeq(wave, IsPinEntry)) = 26

\* the slave left the data line high after a byte ending in a 0 bit, and
\* the sample has been taken
C15_Witness ==
  \E p \in Procs :
    /\ call[p] = "writeByte" /\ step[p] = 12
    /\ b[p] % 2 = 0 /\ ~slaveSda /\ ~ack[p]

\* C16: if the slave holds the clock low for N consecutive polls after the
\* master releases it in the acknowledge phase (any N >= 0), the master
\* performs exactly N additional half-cycle waits, one after each poll that
\* reads low, and samples the acknowledge only after a poll has read the
\* clock high; it never samples the data line while the clock reads low.
C16_StretchWaits ==
  \A p \in Procs :
    /\ (call[p] = "writeByte" /\ step[p] = 12) =>
         \* the release of the data line is entry 44 of the waveform
         LET AckPhaseAt == 1 + 8 * 5 + 3 IN
         /\ Len(wave) = AckPhaseAt + 2 * held + 2
         /\ wave[AckPhaseAt].op = "sda"
         /\ \A j \in 1..held :
              /\ wave[AckPhaseAt + 2 * j - 1].op = "poll"
              /\ wave[AckPhaseAt + 2 * j - 1].scl = "Low"
              /\ wave[AckPhaseAt + 2 * j].op = "wait"
         /\ wave[Len(wave) - 1].op = "poll"
         /\ wave[Len(wave) - 1].scl = "High"
         /\ wave[Len(wave)].op = "sample"
    /\ InWriteByte(p) =>
         \A i \in 1..Len(wave) :
           wave[i].op = "sample" =>
             /\ wave[i].scl = "High"
             /\ wave[i - 1].op = "poll" /\ wave[i - 1].scl = "High"

\* the slave held the clock low for two polls and the acknowledge has been
\* sampled
C16_Witness ==
  \E p \in Procs :
    call[p] = "writeByte" /\ step[p] = 12 /\ held = 2

ReadByteDone(p) == call[p] = "none" /\ pc[p] \in {"tx_r_store", "rrs_r_store"}

WriteByteDone(p) ==
  /\ call[p] = "none"
  /\ pc[p] \in {"tx_addr_ack", "tx_w_ack", "rrs_addr1_ack", "rrs_w_ack",
                "rrs_addr2_ack"}

C19_NoDataChangeWhileClockHigh ==
  [][\A p \in Procs :
       (/\ call[p] \in {"writeByte", "readByte"}
        /\ sdaMode' # sdaMode
        /\ SdaLevel' # SdaLevel)
         => (SclLevel = "Low" /\ SclLevel' = "Low")]_vars

Blocked(p) == pc[p] \in {"tx_lock", "rrs_lock"}
InTransaction(p) == InCS(p) /\ pc[p] \notin {"ss_set", "ss_unlock"}

\* C20: when the slave releases the clock after finitely many polls in
\* every acknowledge phase, every Tx and ReadRepeatedStart call eventually
\* returns, the lock being released as it returns, and every caller blocked
\* on the lock eventually gets to run its transaction.
C20_CallsReturn ==
  /\ \A p \in Procs : InTransaction(p) ~> (pc[p] = "idle")
  /\ \A p \in Procs : Blocked(p) ~> InTransaction(p)
  /\ [][\A p \in Procs :
          (InTransaction(p) /\ pc'[p] = "idle") => (mu /\ ~mu')]_vars

\* one caller waits for the lock while the other, inside a transaction, is
\* polling a clock line the slave holds low
C20_Witness ==
  \E p, q \in Procs :
    /\ Blocked(p)
    /\ call[q] = "writeByte" /\ step[q] = 9 /\ stretch > 0
====
